---- MODULE Spec2Model ----
(***************************************************************************)
(* cell2d.py: a binary cellular automaton on a torus, von Neumann          *)
(* neighbourhood, 32-bit rule.                                             *)
(*                                                                         *)
(* Arrays are objects on a heap and a Field holds references to them, so   *)
(* that `self._prev_cells = self._cells` (aliasing) and `self._cells *= m` *)
(* (in place) mean what they mean in Python.  An array is a function from  *)
(* <<row, col>> to its element, elements reduced modulo the width of the   *)
(* array's dtype.  A uint32 is the set of the positions of its one-bits.   *)
(* A float that the code obtains as a quotient of integers is the pair of  *)
(* numerator and denominator, multiplied component-wise.                   *)
(***************************************************************************)
EXTENDS Integers, FiniteSets, Sequences, TLC

VARIABLES
    heap,      \* address -> array
    fld,       \* the Field main() builds
    fld2,      \* a second Field of the same process (SpecPair only)
    lastOp,    \* the call that returned last
    ret,       \* what it returned
    stepped,   \* update_cells() has run on fld
    nsteps,    \* SpecPair: update_cells() calls on fld
    nsteps2    \* SpecPair: update_cells() calls on fld2

vars == <<heap, fld, fld2, lastOp, ret, stepped, nsteps, nsteps2>>

\* ------------------------------------------------------------------ bounds
MaxCells == 4
MaxSteps == 2
WideMax == 9
PairCells == 4

\* --------------------------------------------------------------- constants
REG_N == 0
REG_E == 1
REG_S == 2
REG_W == 3
REG_C == 4

U8 == 256
U16 == 65536
RuleBits == 32

Kernel3 == (0..2) \X (0..2)

N == [q \in Kernel3 |-> IF q = <<0, 1>> THEN 1 ELSE 0]
E == [q \in Kernel3 |-> IF q = <<1, 2>> THEN 1 ELSE 0]
W == [q \in Kernel3 |-> IF q = <<1, 0>> THEN 1 ELSE 0]
S == [q \in Kernel3 |-> IF q = <<2, 1>> THEN 1 ELSE 0]
Ones3 == [q \in Kernel3 |-> 1]

\* ------------------------------------------------------------ array library
Shape(h, w) == (0..(h - 1)) \X (0..(w - 1))

\* xp.zeros((h, w))
Zeros(h, w) == [p \in Shape(h, w) |-> 0]

Pow2(k) == IF k = 0 THEN 1 ELSE IF k = 1 THEN 2 ELSE IF k = 2 THEN 4
           ELSE IF k = 3 THEN 8 ELSE IF k = 4 THEN 16 ELSE 32

\* a << k on an array whose elements are reduced modulo m
Shl(a, k, m) == [p \in DOMAIN a |-> (a[p] * Pow2(k)) % m]

\* one term of the convolution sum: k[q] * in[p + centre - q], indices wrapped
Tap(in, k, h, w, p, q) ==
    k[q] * in[<<(p[1] + 1 - q[1]) % h, (p[2] + 1 - q[2]) % w>>]

\* signal.convolve2d(in, k, mode = 'same', boundary = 'wrap') for a 3x3 k
convolve2d(in, k, h, w, m) ==
    [p \in Shape(h, w) |->
        ( Tap(in, k, h, w, p, <<0, 0>>) + Tap(in, k, h, w, p, <<0, 1>>)
        + Tap(in, k, h, w, p, <<0, 2>>) + Tap(in, k, h, w, p, <<1, 0>>)
        + Tap(in, k, h, w, p, <<1, 1>>) + Tap(in, k, h, w, p, <<1, 2>>)
        + Tap(in, k, h, w, p, <<2, 0>>) + Tap(in, k, h, w, p, <<2, 1>>)
        + Tap(in, k, h, w, p, <<2, 2>>) ) % m]

RECURSIVE SumOver(_, _)
SumOver(a, ps) ==
    IF ps = {} THEN 0
    ELSE LET p == CHOOSE x \in ps : TRUE IN a[p] + SumOver(a, ps \ {p})

\* a.sum(): the accumulator is 64 bits wide, no wrap at these sizes
ArraySum(a) == SumOver(a, DOMAIN a)

\* ------------------------------------------------------------------- heap
Nil == 0 - 1

NoField == [built |-> FALSE, width |-> 0, height |-> 0, rule |-> {},
            cells |-> Nil, prev_cells |-> Nil]

Refs(f) == IF f.built THEN {f.cells, f.prev_cells} ELSE {}

\* the lowest address that holds no array
Alloc(hp) == CHOOSE a \in 0..Cardinality(DOMAIN hp) :
                /\ a \notin DOMAIN hp
                /\ \A b \in 0..Cardinality(DOMAIN hp) : b \notin DOMAIN hp => a <= b

Store(hp, a, v) == [x \in (DOMAIN hp) \cup {a} |-> IF x = a THEN v ELSE hp[x]]

\* Arrays no Field refers to are reclaimed and the others renumbered: f's at
\* base and base + 1 (one address when both names are bound to one array).
\* Addresses cannot be observed, only whether two names share an array.
Relocate(f, base) ==
    IF ~f.built THEN f
    ELSE [f EXCEPT !.cells = base,
                   !.prev_cells = IF f.prev_cells = f.cells THEN base ELSE base + 1]

Collect(hp, f, f2) ==
    [x \in Refs(Relocate(f, 0)) \cup Refs(Relocate(f2, 2)) |->
        IF x = 0 THEN hp[f.cells] ELSE IF x = 1 THEN hp[f.prev_cells]
        ELSE IF x = 2 THEN hp[f2.cells] ELSE hp[f2.prev_cells]]

RetNone == [kind |-> "None", a |-> 0, b |-> 1]
Raise(e) == [kind |-> e, a |-> 0, b |-> 1]
Float(a, b) == [kind |-> "float", a |-> a, b |-> b]
Out(hp, f, r) == [heap |-> hp, fld |-> f, ret |-> r]

\* ------------------------------------------------------------------ Field
\* Field.__init__: xp.zeros rejects a negative dimension, nothing else does
FieldInit(hp, width, height, rule) ==
    IF width < 0 \/ height < 0
    THEN Out(hp, NoField, Raise("ValueError"))
    ELSE LET a1 == Alloc(hp)
             h1 == Store(hp, a1, Zeros(height, width))
             a2 == Alloc(h1)
             h2 == Store(h1, a2, Zeros(height, width))
         IN Out(h2, [built |-> TRUE, width |-> width, height |-> height,
                     rule |-> rule, cells |-> a1, prev_cells |-> a2], RetNone)

\* Field.init_random: g is the array xp.random.randint draws
init_random(hp, f, g) ==
    LET a == Alloc(hp)
    IN Out(Store(hp, a, g), [f EXCEPT !.cells = a], RetNone)

\* the mask with the upper limits computed as (h // 3) * 2 and (w // 3) * 2
MaskArrayFloorFirst(h, w) ==
    [p \in Shape(h, w) |->
        IF /\ (h \div 3) <= p[1] /\ p[1] < ((h \div 3) * 2)
           /\ (w \div 3) <= p[2] /\ p[2] < ((w \div 3) * 2)
        THEN 1 ELSE 0]

\* m[(h // 3):(h * 2 // 3), (w // 3):(w * 2 // 3)] = 1
MaskArray(h, w) ==
    [p \in Shape(h, w) |->
        IF /\ (h \div 3) <= p[1] /\ p[1] < ((h * 2) \div 3)
           /\ (w \div 3) <= p[2] /\ p[2] < ((w * 2) \div 3)
        THEN 1 ELSE 0]

\* Field.mask: self._cells *= m, in place
mask(hp, f) ==
    LET m == MaskArray(f.height, f.width)
        c == hp[f.cells]
    IN Out(Store(hp, f.cells, [p \in DOMAIN c |-> (c[p] * m[p]) % U8]), f, RetNone)

\* the same array with the centre shifted one position too far
NeighbourIndexShiftedCentre(c, h, w) ==
    LET rc == Shl(c, REG_C + 1, U16)
        rn == Shl(convolve2d(c, N, h, w, U16), REG_N, U16)
        re == Shl(convolve2d(c, E, h, w, U16), REG_E, U16)
        rw == Shl(convolve2d(c, W, h, w, U16), REG_W, U16)
        rs == Shl(convolve2d(c, S, h, w, U16), REG_S, U16)
    IN [p \in Shape(h, w) |-> (rc[p] + rn[p] + re[p] + rw[p] + rs[p]) % U16]

\* the array r of update_cells: centre and the four convolutions, each shifted
\* to its REG_ position, accumulated in uint16
NeighbourIndex(c, h, w) ==
    LET rc == Shl(c, REG_C, U16)
        rn == Shl(convolve2d(c, N, h, w, U16), REG_N, U16)
        re == Shl(convolve2d(c, E, h, w, U16), REG_E, U16)
        rw == Shl(convolve2d(c, W, h, w, U16), REG_W, U16)
        rs == Shl(convolve2d(c, S, h, w, U16), REG_S, U16)
    IN [p \in Shape(h, w) |-> (rc[p] + rn[p] + re[p] + rw[p] + rs[p]) % U16]

\* xp.left_shift(uint32(1), r): the one-bits of 1 << r
LeftShift1(r) == IF r < RuleBits THEN {r} ELSE {}

\* xp.select([(s & rule) != 0], [1], default = 0)
RuleSelect(r, rule) ==
    [p \in DOMAIN r |-> IF (LeftShift1(r[p]) \cap rule) # {} THEN 1 ELSE 0]

\* update_cells that never rebinds _prev_cells
update_cells_KeepPrev(hp, f) ==
    LET new == RuleSelect(NeighbourIndex(hp[f.cells], f.height, f.width), f.rule)
    IN Out(Store(hp, Alloc(hp), new), [f EXCEPT !.cells = Alloc(hp)], RetNone)

\* update_cells that takes the centre bit from the old _prev_cells
update_cells_StaleCentre(hp, f) ==
    LET c == hp[f.cells]
        o == hp[f.prev_cells]
        r == NeighbourIndex(c, f.height, f.width)
        q == [p \in DOMAIN r |->
                (r[p] + U16 - (c[p] * Pow2(REG_C)) + (o[p] * Pow2(REG_C))) % U16]
        f1 == [f EXCEPT !.prev_cells = f.cells]
    IN Out(Store(hp, Alloc(hp), RuleSelect(q, f.rule)),
           [f1 EXCEPT !.cells = Alloc(hp)], RetNone)

\* Field.update_cells
update_cells(hp, f) ==
    LET f1 == [f EXCEPT !.prev_cells = f.cells]
        r == NeighbourIndex(hp[f1.cells], f.height, f.width)
        new == RuleSelect(r, f.rule)
        a == Alloc(hp)
    IN Out(Store(hp, a, new), [f1 EXCEPT !.cells = a], RetNone)

\* math.log(x) raises ValueError for x = 0; x = num / den with den > 0
MathLogRaises(num) == num = 0

\* entropy without the try/except
entropy_NoExcept(hp, f) ==
    LET conv == convolve2d(hp[f.cells], Ones3, f.height, f.width, U8)
        ones == ArraySum([p \in DOMAIN conv |-> IF conv[p] # 0 THEN 1 ELSE 0])
        total == f.height * f.width
    IN IF MathLogRaises(ones) \/ MathLogRaises(total - ones)
       THEN Out(hp, f, Raise("ValueError"))
       ELSE Out(hp, f, [kind |-> "entropy", a |-> ones, b |-> total])

\* Field.entropy: p_one = ones / total, p_zero = 1.0 - p_one; the value
\* -(p_one * log(p_one) + p_zero * log(p_zero)) is kept as the pair ones, total
entropy(hp, f) ==
    LET conv == convolve2d(hp[f.cells], Ones3, f.height, f.width, U8)
        ones == ArraySum([p \in DOMAIN conv |-> IF conv[p] # 0 THEN 1 ELSE 0])
        total == f.height * f.width
    IN IF MathLogRaises(ones) \/ MathLogRaises(total - ones)
       THEN Out(hp, f, Float(0, 1))
       ELSE Out(hp, f, [kind |-> "entropy", a |-> ones, b |-> total])

\* (conv - cells) without the square
SqDiffNoSquare(conv, c) == [p \in DOMAIN c |-> (conv[p] - c[p]) % U8]

\* 1 where the two arrays agree
SqDiffAgree(conv, c) == [p \in DOMAIN c |-> IF conv[p] = c[p] THEN 1 ELSE 0]

\* (conv - cells) ** 2 on uint8 arrays: difference and square both wrap at 256
SqDiff(conv, c) ==
    [p \in DOMAIN c |-> (((conv[p] - c[p]) % U8) * ((conv[p] - c[p]) % U8)) % U8]

\* r_n, r_e, r_w, r_s: sum of the squared differences over height * width
DiffRate(c, k, h, w) ==
    <<ArraySum(SqDiff(convolve2d(c, k, h, w, U8), c)), h * w>>

\* r_c: the number of cells with prev_cells == cells over height * width
SameRate(o, c, h, w) ==
    <<ArraySum([p \in DOMAIN c |-> IF o[p] = c[p] THEN 1 ELSE 0]), h * w>>

\* sticky_rate that subtracts in place (self._cells -= the north convolution)
sticky_rate_InPlace(hp, f) ==
    LET c == hp[f.cells]
        d == SqDiffNoSquare(convolve2d(c, N, f.height, f.width, U8), c)
    IN Out(Store(hp, f.cells, d), f, Float(ArraySum(d), f.height * f.width))

\* Field.sticky_rate
sticky_rate(hp, f) ==
    LET c == hp[f.cells]
        r_n == DiffRate(c, N, f.height, f.width)
        r_e == DiffRate(c, E, f.height, f.width)
        r_w == DiffRate(c, W, f.height, f.width)
        r_s == DiffRate(c, S, f.height, f.width)
        r_c == SameRate(hp[f.prev_cells], c, f.height, f.width)
    IN Out(hp, f, Float(r_n[1] * r_e[1] * r_w[1] * r_s[1] * r_c[1],
                        r_n[2] * r_e[2] * r_w[2] * r_s[2] * r_c[2]))

\* ----------------------------------------------------------------- inputs
Bit(i, k) == (i \div Pow2(k)) % 2

\* the rule whose output is bit k of the index
RuleOf(k) == {i \in 0..(RuleBits - 1) : Bit(i, k) = 1}

\* --rule 0, 0xFFFFFFFF, and the five rules that copy one bit of the index:
\* 0xAAAAAAAA, 0xCCCCCCCC, 0xF0F0F0F0, 0xFF00FF00, 0xFFFF0000
BitRules == { {}, 0..(RuleBits - 1), RuleOf(REG_N), RuleOf(REG_E),
              RuleOf(REG_S), RuleOf(REG_W), RuleOf(REG_C) }

\* those and --rule 0x80100242
Rules == BitRules \cup { {1, 6, 9, 20, 31} }

\* what xp.random.randint(2, size = (h, w)) can return
BinaryArrays(h, w) == [Shape(h, w) -> {0, 1}]

\* a few of them, for the sizes at which all of them are too many
SampleArrays(h, w) ==
    { [p \in Shape(h, w) |-> 1],
      [p \in Shape(h, w) |-> IF p = <<0, 0>> THEN 1 ELSE 0],
      [p \in Shape(h, w) |-> (p[1] + p[2]) % 2],
      [p \in Shape(h, w) |-> IF (p[1] * 2 + p[2]) % 3 = 0 THEN 1 ELSE 0] }

\* --------------------------------------------------------------- actions
Init ==
    /\ heap = [x \in {} |-> 0]
    /\ fld = NoField
    /\ fld2 = NoField
    /\ lastOp = "start"
    /\ ret = RetNone
    /\ stepped = FALSE
    /\ nsteps = 0
    /\ nsteps2 = 0

Do(op, out) ==
    /\ heap' = Collect(out.heap, out.fld, fld2)
    /\ fld' = Relocate(out.fld, 0)
    /\ ret' = out.ret
    /\ lastOp' = op

\* field = Field(width, height, rule)
Construct(width, height, rule) ==
    /\ lastOp = "start"
    /\ Do("Field", FieldInit(heap, width, height, rule))
    /\ UNCHANGED <<fld2, stepped, nsteps, nsteps2>>

\* field.init_random()
InitRandom(g) ==
    /\ fld.built
    /\ Do("init_random", init_random(heap, fld, g))
    /\ UNCHANGED <<fld2, stepped, nsteps, nsteps2>>

\* field.mask()
Mask ==
    /\ fld.built
    /\ Do("mask", mask(heap, fld))
    /\ UNCHANGED <<fld2, stepped, nsteps, nsteps2>>

\* the metrics and the step are modelled on grids that have cells
NonEmpty(f) == f.built /\ f.width > 0 /\ f.height > 0

\* field.update_cells()
UpdateCells ==
    /\ NonEmpty(fld)
    /\ Do("update_cells", update_cells(heap, fld))
    /\ stepped' = TRUE
    /\ UNCHANGED <<fld2, nsteps, nsteps2>>

\* field.entropy()
Entropy ==
    /\ NonEmpty(fld)
    /\ Do("entropy", entropy(heap, fld))
    /\ UNCHANGED <<fld2, stepped, nsteps, nsteps2>>

\* field.sticky_rate()
StickyRate ==
    /\ NonEmpty(fld)
    /\ Do("sticky_rate", sticky_rate(heap, fld))
    /\ UNCHANGED <<fld2, stepped, nsteps, nsteps2>>

\* any sequence of calls on one Field of at most MaxCells cells
Next ==
    \/ \E width \in (0 - 1)..MaxCells, height \in (0 - 1)..MaxCells, rule \in Rules :
          width * height <= MaxCells /\ Construct(width, height, rule)
    \/ \E g \in BinaryArrays(fld.height, fld.width) : InitRandom(g)
    \/ Mask
    \/ UpdateCells
    \/ Entropy
    \/ StickyRate

Spec == Init /\ [][Next]_vars

\* ---- main()'s order of calls (Field, init_random, mask, update_cells ...)
\* with mask() optional, on larger grids and a few drawn arrays
NextWide ==
    \/ \E width \in 1..WideMax, height \in 1..WideMax, rule \in BitRules :
          Construct(width, height, rule)
    \/ \E g \in SampleArrays(fld.height, fld.width) :
          lastOp = "Field" /\ InitRandom(g)
    \/ ~stepped /\ lastOp # "Field" /\ Mask
    \/ lastOp # "Field" /\ UpdateCells

SpecWide == Init /\ [][NextWide]_vars

\* ---- two Fields with equal width, height, rule and current array; the
\* first has any previous array, the second has taken no step yet
InitPair ==
    \E width \in 1..PairCells, height \in 1..PairCells, rule \in BitRules :
      /\ width * height <= PairCells
      /\ \E g \in BinaryArrays(height, width), o \in BinaryArrays(height, width) :
           /\ heap = [x \in 0..3 |-> IF x = 0 THEN g ELSE IF x = 1 THEN o
                                     ELSE IF x = 2 THEN g
                                     ELSE Zeros(height, width)]
           /\ fld = [built |-> TRUE, width |-> width, height |-> height,
                     rule |-> rule, cells |-> 0, prev_cells |-> 1]
           /\ fld2 = [built |-> TRUE, width |-> width, height |-> height,
                      rule |-> rule, cells |-> 2, prev_cells |-> 3]
      /\ lastOp = "start"
      /\ ret = RetNone
      /\ stepped = FALSE
      /\ nsteps = 0
      /\ nsteps2 = 0

\* field.update_cells() of the first simulation
StepA ==
    /\ nsteps < MaxSteps
    /\ Do("update_cells", update_cells(heap, fld))
    /\ nsteps' = nsteps + 1
    /\ stepped' = TRUE
    /\ UNCHANGED <<fld2, nsteps2>>

\* field.update_cells() of the second simulation
StepB ==
    /\ nsteps2 < MaxSteps
    /\ LET out == update_cells(heap, fld2)
       IN /\ heap' = Collect(out.heap, fld, out.fld)
          /\ fld2' = Relocate(out.fld, 2)
          /\ ret' = out.ret
          /\ lastOp' = "update_cells2"
    /\ nsteps2' = nsteps2 + 1
    /\ UNCHANGED <<fld, stepped, nsteps>>

NextPair == StepA \/ StepB

SpecPair == InitPair /\ [][NextPair]_vars

\* ================================================================ claims
Cur == heap[fld.cells]
Prev == heap[fld.prev_cells]
AllOnes(h, w) == [p \in Shape(h, w) |-> 1]
Uniform(g) == \A p \in DOMAIN g, q \in DOMAIN g : g[p] = g[q]

\* the neighbours as the specification places them
North(g, h, w, p) == g[<<(p[1] - 1) % h, p[2]>>]
South(g, h, w, p) == g[<<(p[1] + 1) % h, p[2]>>]
East(g, h, w, p) == g[<<p[1], (p[2] + 1) % w>>]
West(g, h, w, p) == g[<<p[1], (p[2] - 1) % w>>]

Index(g, h, w, p) ==
    North(g, h, w, p) + 2 * East(g, h, w, p) + 4 * South(g, h, w, p)
    + 8 * West(g, h, w, p) + 16 * g[p]

\* (rule >> index) & 1 in every cell
Step(g, h, w, rule) ==
    [p \in Shape(h, w) |-> IF Index(g, h, w, p) \in rule THEN 1 ELSE 0]

\* C1: after update_cells() every cell of the current grid is bit `index` of
\* the rule, index = N | E<<1 | S<<2 | W<<3 | C<<4 read from the pre-step grid
\* with North at row-1, East at col+1, South at row+1, West at col-1 (wrapped).
C1_UpdateFollowsCompassIndex ==
    [][lastOp' = "update_cells"
         => Cur' = Step(Cur, fld.height, fld.width, fld.rule)]_vars

\* C2: the previous grid is all-zero while no update_cells() has run; an
\* update_cells() makes it the current grid as it was before the call; no other
\* call (init_random, mask, the metrics) changes it.
C2_PrevIsPreStepGrid ==
    /\ [](fld.built /\ ~stepped => Prev = Zeros(fld.height, fld.width))
    /\ [][/\ lastOp' = "update_cells" => Prev' = Cur
          /\ fld.built /\ lastOp' # "update_cells" => Prev' = Prev]_vars

C2_Witness ==
    /\ lastOp = "mask" /\ stepped
    /\ Prev # Zeros(fld.height, fld.width)
    /\ Cur # Prev

\* C3 as stated: sticky_rate() is exactly 1.0 on a uniform grid that equals
\* the previous grid.
C3_UniformFrozenIsOne ==
    lastOp = "sticky_rate" /\ Uniform(Cur) /\ Cur = Prev
        => ret.kind = "float" /\ ret.a = ret.b

\* C3 amended: sticky_rate() is exactly 0.0 on a uniform grid that equals the
\* previous grid.
C3_UniformFrozenIsZero ==
    lastOp = "sticky_rate" /\ Uniform(Cur) /\ Cur = Prev
        => ret.kind = "float" /\ ret.a = 0 /\ ret.b > 0

C3_Witness ==
    /\ lastOp = "sticky_rate" /\ stepped
    /\ fld.width * fld.height > 1
    /\ Uniform(Cur) /\ Cur = Prev

\* C4: no Field exists with width <= 0 or height <= 0: the construction fails.
C4_NoFieldOfBadSize ==
    fld.built => fld.width > 0 /\ fld.height > 0

\* C5: after update_cells() with rule 0 every cell is 0 and with rule
\* 0xFFFFFFFF every cell is 1, at the first step and at every later one.
C5_ConstantRules ==
    lastOp = "update_cells" =>
        /\ fld.rule = {} => Cur = Zeros(fld.height, fld.width)
        /\ fld.rule = 0..31 => Cur = AllOnes(fld.height, fld.width)

C5_Witness ==
    /\ lastOp = "update_cells"
    /\ fld.rule = 0..31
    /\ fld.width * fld.height > 1
    /\ Prev # AllOnes(fld.height, fld.width)
    /\ Cur = AllOnes(fld.height, fld.width)

InRect(h, w, p) ==
    /\ (h \div 3) <= p[1] /\ p[1] < ((2 * h) \div 3)
    /\ (w \div 3) <= p[2] /\ p[2] < ((2 * w) \div 3)

\* C6: mask() zeroes every cell outside rows [H/3, 2H/3) and columns
\* [W/3, 2W/3), keeps every cell inside, and a second mask() changes nothing.
C6_MaskKeepsCentralRectangle ==
    [][lastOp' = "mask" =>
         /\ \A p \in Shape(fld.height, fld.width) :
               Cur'[p] = IF InRect(fld.height, fld.width, p) THEN Cur[p] ELSE 0
         /\ lastOp = "mask" => Cur' = Cur]_vars

C6_Witness ==
    /\ lastOp = "mask"
    /\ fld.width = 9 /\ fld.height = 9
    /\ \A p \in Shape(9, 9) :
          Cur[p] = IF p[1] \in 3..5 /\ p[2] \in 3..5 THEN 1 ELSE 0

\* the cells whose 3x3 wraparound neighbourhood holds a nonzero cell
ActiveRegion(g, h, w) ==
    {p \in Shape(h, w) :
        \E dr \in {0 - 1, 0, 1}, dc \in {0 - 1, 0, 1} :
            g[<<(p[1] + dr) % h, (p[2] + dc) % w>>] # 0}

\* C7: entropy() raises nothing; it returns exactly 0 when the fraction of
\* active-region cells is 0 or 1 (so on an all-0 and on an all-1 grid), and a
\* nonzero value only when that fraction is strictly between 0 and 1.
C7_EntropyDegenerate ==
    lastOp = "entropy" =>
        LET k == Cardinality(ActiveRegion(Cur, fld.height, fld.width))
            n == fld.height * fld.width
        IN /\ ret.kind \in {"float", "entropy"}
           /\ k \in {0, n} => ret = Float(0, 1)
           /\ Uniform(Cur) => ret = Float(0, 1)
           /\ ret # Float(0, 1) => 0 < k /\ k < n /\ ret.a = k /\ ret.b = n

C7_Witness ==
    /\ lastOp = "entropy"
    /\ fld.width * fld.height > 1
    /\ Cur # AllOnes(fld.height, fld.width)
    /\ Cardinality(ActiveRegion(Cur, fld.height, fld.width))
          = fld.height * fld.width
    /\ ret = Float(0, 1)

\* C8: two Fields of equal width, height and rule that start from the same
\* current grid, whatever their previous grids, hold the same current grid
\* whenever both have taken the same number of update_cells() steps.
C8_SameStepsSameGrid ==
    nsteps = nsteps2 => heap[fld.cells] = heap[fld2.cells]

C8_Witness ==
    /\ nsteps = MaxSteps /\ nsteps2 = MaxSteps
    /\ fld.rule = RuleOf(REG_C)
    /\ Cur # Zeros(fld.height, fld.width)
    /\ Cur # AllOnes(fld.height, fld.width)

\* C9: entropy() and sticky_rate() change neither array nor the Field, and a
\* metric called again at once returns what it returned before.
C9_MetricsArePure ==
    [][lastOp' \in {"entropy", "sticky_rate"} =>
         /\ heap' = heap /\ fld' = fld
         /\ lastOp = lastOp' => ret' = ret]_vars

C9_Witness ==
    /\ lastOp = "entropy" /\ stepped
    /\ ret.kind = "entropy"
    /\ Cur # Prev

Differ(g, h, w, Nb(_, _, _, _)) ==
    Cardinality({p \in Shape(h, w) : g[p] # Nb(g, h, w, p)})

Pow5(n) == n * n * n * n * n

\* C10: sticky_rate() is d_N * d_E * d_S * d_W * c over (W*H)^5, d_D the number
\* of cells that differ from their D-neighbour and c the number of cells equal
\* to the previous grid; per cell, the uint8 squared difference is 1 or 0.
C10_StickyRateCounts ==
    /\ \A x \in {0, 1}, y \in {0, 1} :
          SqDiff(<<x>>, <<y>>)[1] = IF x # y THEN 1 ELSE 0
    /\ lastOp = "sticky_rate" =>
          LET h == fld.height
              w == fld.width
              c == Cardinality({p \in Shape(h, w) : Cur[p] = Prev[p]})
          IN ret = Float(Differ(Cur, h, w, North) * Differ(Cur, h, w, East)
                           * Differ(Cur, h, w, South) * Differ(Cur, h, w, West) * c,
                         Pow5(w * h))

C10_Witness ==
    /\ lastOp = "sticky_rate" /\ stepped
    /\ ret.a > 0
    /\ Cur # Prev

====
